---- MODULE Spec2Model ----
(***************************************************************************)
(* A model of passport-windows-live-token (src/src/index.js): the          *)
(* WindowsLiveTokenStrategy constructor, authenticate and userProfile,     *)
(* with the OAuth2 client (_oauth2.get), the application's verify callback *)
(* and the host framework's success/fail/error signals as environment.     *)
(***************************************************************************)
EXTENDS Integers, Sequences, FiniteSets, TLC

(***************************************************************************)
(* JavaScript values.  Every value is a record tagged by its type t.       *)
(* A string is either plain text (field s) or the text of a JSON document  *)
(* (field json holds the value the document denotes).                      *)
(***************************************************************************)
Undefined == [t |-> "undefined"]
Null == [t |-> "null"]
Bool(b) == [t |-> "boolean", b |-> b]
Num(n) == [t |-> "number", n |-> n]
Str(s) == [t |-> "string", s |-> s]
JsonText(v) == [t |-> "string", json |-> v]
Obj(f) == [t |-> "object", f |-> f]
Arr(a) == [t |-> "array", a |-> a]
ErrorObj(name, message, oauthError) ==
    [t |-> "error", name |-> name, message |-> message, oauthError |-> oauthError]

IsJsonText(v) == v.t = "string" /\ "json" \in DOMAIN v

\* ToBoolean: undefined, null, false and the empty string are falsy.
Truthy(v) ==
    CASE v.t = "undefined" -> FALSE
      [] v.t = "null" -> FALSE
      [] v.t = "boolean" -> v.b
      [] v.t = "number" -> v.n # 0
      [] v.t = "string" -> IF IsJsonText(v) THEN TRUE ELSE v.s # ""
      [] OTHER -> TRUE

\* a && b and a || b yield one of their operands, not a boolean.
And(a, b) == IF Truthy(a) THEN b ELSE a
Or(a, b) == IF Truthy(a) THEN a ELSE b

\* Property read o[k] / o.k on a value that can be read (not undefined/null):
\* an own property of an object, undefined otherwise.
Get(o, k) ==
    IF o.t = "object" /\ k \in DOMAIN o.f THEN o.f[k] ELSE Undefined

\* o[k] throws a TypeError when o is undefined or null.
CanRead(o) == o.t \notin {"undefined", "null"}

\* String(v), as used by template literals, string concatenation and
\* property keys.
JSString(v) ==
    CASE v.t = "undefined" -> "undefined"
      [] v.t = "null" -> "null"
      [] v.t = "boolean" -> IF v.b THEN "true" ELSE "false"
      [] v.t = "number" -> ToString(v.n)
      [] v.t = "string" -> IF IsJsonText(v) THEN "<json>" ELSE v.s
      [] OTHER -> "[object Object]"

\* a == b for the operands userProfile compares (two strings).
LooseEq(a, b) == a.t = b.t /\ a = b

TypeError == ErrorObj("TypeError", "Cannot read property of undefined", Undefined)
SyntaxError == ErrorObj("SyntaxError", "Unexpected token", Undefined)

\* JSON.parse(x): the value a JSON text denotes; null and booleans are
\* coerced to the texts "null", "true", "false"; anything else (undefined,
\* plain text, an object) is no JSON text and throws a SyntaxError.
JSONParse(x) ==
    IF IsJsonText(x) THEN [threw |-> FALSE, v |-> x.json]
    ELSE IF x.t \in {"null", "boolean"} THEN [threw |-> FALSE, v |-> x]
    ELSE [threw |-> TRUE, v |-> SyntaxError]

(***************************************************************************)
(* The constructor: the configuration fields of the strategy object.       *)
(***************************************************************************)
Constructor(_options) ==
    LET options == Or(_options, Obj(<<>>)) IN
    [ name |-> "windows-live-token",
      _accessTokenField |-> Or(Get(options, "accessTokenField"), Str("access_token")),
      _refreshTokenField |-> Or(Get(options, "refreshTokenField"), Str("refresh_token")),
      _profileURL |-> Or(Get(options, "profileURL"), Str("https://apis.live.net/v5.0/me")),
      _passReqToCallback |-> Get(options, "passReqToCallback") ]

(***************************************************************************)
(* authenticate: token extraction and the missing-token failure.           *)
(***************************************************************************)
\* Mutant: the query is consulted before the body.
ExtractTokenQueryFirst(req, field) ==
    LET body == Get(req, "body")
        query == Get(req, "query")
    IN Or(And(query, Get(query, JSString(field))), And(body, Get(body, JSString(field))))

\* (req.body && req.body[field]) || (req.query && req.query[field])
ExtractToken(req, field) ==
    LET body == Get(req, "body")
        query == Get(req, "query")
    IN Or(And(body, Get(body, JSString(field))), And(query, Get(query, JSString(field))))

\* The outcomes the host framework's success / fail / error record.
Success(user, info) == [kind |-> "success", user |-> user, info |-> info, err |-> Undefined]
Fail(info) == [kind |-> "fail", user |-> Undefined, info |-> info, err |-> Undefined]
Error(err) == [kind |-> "error", user |-> Undefined, info |-> Undefined, err |-> err]

\* Mutant: the message names 'access_token' whatever field is configured.
MissingTokenInfoFixedName(self) ==
    Obj([message |-> Str("You should provide access_token")])

\* {message: `You should provide ${this._accessTokenField}`}
MissingTokenInfo(self) ==
    Obj([message |-> Str("You should provide " \o JSString(self._accessTokenField))])

\* Mutant: the user is looked at before the error.
VerifiedUserFirst(error, user, info) ==
    IF Truthy(user) THEN Success(user, info)
    ELSE IF Truthy(error) THEN Error(error)
    ELSE Fail(info)

\* const verified = (error, user, info) => ...
Verified(error, user, info) ==
    IF Truthy(error) THEN Error(error)
    ELSE IF ~Truthy(user) THEN Fail(info)
    ELSE Success(user, info)

\* Mutant: the request is passed whenever passReqToCallback was given at all.
VerifyArgsWhenGiven(self, req, accessToken, refreshToken, profile) ==
    IF self._passReqToCallback # Undefined
    THEN <<req, accessToken, refreshToken, profile, Str("verified")>>
    ELSE <<accessToken, refreshToken, profile, Str("verified")>>

\* The argument list _verify is called with; the last argument is the
\* verified function, written "verified".
VerifyArgs(self, req, accessToken, refreshToken, profile) ==
    IF Truthy(self._passReqToCallback)
    THEN <<req, accessToken, refreshToken, profile, Str("verified")>>
    ELSE <<accessToken, refreshToken, profile, Str("verified")>>

(***************************************************************************)
(* userProfile: the callback given to _oauth2.get.                         *)
(***************************************************************************)
InternalOAuthError(message, err) == ErrorObj("InternalOAuthError", message, err)

\* Mutant: the provider's payload is never looked at.
TransportErrorGeneric(error) ==
    InternalOAuthError(Str("Failed to fetch user profile"), error)

\* The if (error) branch: the error handed to done.
TransportError(error) ==
    LET p == JSONParse(Get(error, "data"))
        errorJSON == p.v
        envelope == Get(errorJSON, "error")
    IN IF p.threw \/ ~CanRead(errorJSON) \/ ~CanRead(envelope)
       THEN InternalOAuthError(Str("Failed to fetch user profile"), error)
       ELSE InternalOAuthError(Get(envelope, "message"), Get(envelope, "code"))

\* Mutant: an entry is pushed whenever the key is there, also when empty.
EmailEntryWhenDefined(json, key, type) ==
    LET emails == Get(json, "emails") IN
    IF Truthy(emails) /\ Get(emails, key) # Undefined
    THEN <<Obj([value |-> Get(emails, key), type |-> Str(type)])>>
    ELSE <<>>

\* if (json.emails && json.emails.<key>) profile.emails.push({value, type})
EmailEntry(json, key, type) ==
    LET emails == Get(json, "emails") IN
    IF Truthy(And(emails, Get(emails, key)))
    THEN <<Obj([value |-> Get(emails, key), type |-> Str(type)])>>
    ELSE <<>>

PushedEmails(json) ==
    EmailEntry(json, "account", "account") \o EmailEntry(json, "personal", "home")
      \o EmailEntry(json, "business", "work") \o EmailEntry(json, "other", "other")

\* profile.emails[i].primary = true for every entry whose value == preferred
IsPreferred(entry, preferred) == LooseEq(entry.f.value, preferred)

MarkPrimary(entries, json) ==
    LET emails == Get(json, "emails")
        preferred == Get(emails, "preferred")
    IN IF Truthy(And(emails, preferred))
       THEN [i \in DOMAIN entries |->
               IF IsPreferred(entries[i], preferred)
               THEN Obj(("primary" :> Bool(TRUE)) @@ entries[i].f)
               ELSE entries[i]]
       ELSE entries

BuildProfile(body, json) ==
    Obj([ provider |-> Str("windows-live"),
          id |-> Get(json, "id"),
          username |-> Or(Get(json, "username"), Str("")),
          displayName |-> Or(Get(json, "name"), Str("")),
          name |-> Obj([ familyName |-> Or(Get(json, "last_name"), Str("")),
                         givenName |-> Or(Get(json, "first_name"), Str("")) ]),
          emails |-> Arr(MarkPrimary(PushedEmails(json), json)),
          photos |-> Arr(<<Obj([value |-> Str("https://apis.live.net/v5.0/"
                                     \o JSString(Get(json, "id")) \o "/picture")])>>),
          _raw |-> body,
          _json |-> json ])

\* Mutant: a body that does not parse yields an empty profile, no error.
ParseProfileLenient(body) ==
    LET p == JSONParse(body) IN
    IF p.threw \/ ~CanRead(p.v) THEN [error |-> Null, profile |-> BuildProfile(body, Obj(<<>>))]
    ELSE [error |-> Null, profile |-> BuildProfile(body, p.v)]

\* The try block: the (error, profile) first handed to done.
ParseProfile(body) ==
    LET p == JSONParse(body) IN
    IF p.threw THEN [error |-> p.v, profile |-> Undefined]
    ELSE IF ~CanRead(p.v) THEN [error |-> TypeError, profile |-> Undefined]
    ELSE [error |-> Null, profile |-> BuildProfile(body, p.v)]

\* (error, body, res) => ... : the arguments of the first call of done.
UserProfileDone(error, body) ==
    IF Truthy(error)
    THEN [error |-> TransportError(error), profile |-> Undefined]
    ELSE ParseProfile(body)

(***************************************************************************)
(* State.  strategy is the strategy object's configuration; calls[c] is    *)
(* one invocation of authenticate (or of userProfile by a direct caller):  *)
(* its closure (req, accessToken, refreshToken) and what it has done so    *)
(* far: the fetches it issued, the (error, body) the OAuth2 client         *)
(* answered, the (error, profile) pairs userProfile handed to done, the    *)
(* argument lists _verify was called with, the arguments verified was      *)
(* called with, and the outcomes signalled.                                *)
(***************************************************************************)
VARIABLES strategy, calls

vars == <<strategy, calls>>

IdleCall ==
    [ pc |-> "idle", entry |-> "none", req |-> Undefined,
      accessToken |-> Undefined, refreshToken |-> Undefined,
      fetch |-> <<>>, response |-> <<>>, loaded |-> <<>>, verifyArgs |-> <<>>,
      doneArgs |-> <<>>, outcomes |-> <<>> ]

\* What the verify callback does while _verify runs: it may call verified
\* (done is the argument triple, <<>> when it does not) and may then throw
\* (throw is the exception, undefined when it returns normally).
Returns(done) == [done |-> done, throw |-> Undefined]
Throws(done, exception) == [done |-> done, throw |-> exception]

\* Mutant: the options of a request override the strategy's passReqToCallback.
AuthenticateOverriding(c, req, options) ==
    /\ calls[c].pc = "idle"
    /\ LET accessToken == ExtractToken(req, strategy._accessTokenField)
           refreshToken == ExtractToken(req, strategy._refreshTokenField)
           entered == [calls[c] EXCEPT !.entry = "authenticate", !.req = req,
                                       !.accessToken = accessToken,
                                       !.refreshToken = refreshToken]
       IN IF ~Truthy(accessToken)
          THEN calls' = [calls EXCEPT ![c] =
                   [entered EXCEPT !.pc = "done",
                                   !.outcomes = <<Fail(MissingTokenInfo(strategy))>>]]
          ELSE calls' = [calls EXCEPT ![c] =
                   [entered EXCEPT !.pc = "fetching",
                                   !.fetch = <<[url |-> strategy._profileURL,
                                                accessToken |-> accessToken]>>]]
    /\ strategy' = [strategy EXCEPT !._passReqToCallback =
                        Get(Or(options, Obj(<<>>)), "passReqToCallback")]

\* authenticate(req, options); options is not read.
Authenticate(c, req, options) ==
    /\ calls[c].pc = "idle"
    /\ LET accessToken == ExtractToken(req, strategy._accessTokenField)
           refreshToken == ExtractToken(req, strategy._refreshTokenField)
           entered == [calls[c] EXCEPT !.entry = "authenticate", !.req = req,
                                       !.accessToken = accessToken,
                                       !.refreshToken = refreshToken]
       IN IF ~Truthy(accessToken)
          THEN calls' = [calls EXCEPT ![c] =
                   [entered EXCEPT !.pc = "done",
                                   !.outcomes = <<Fail(MissingTokenInfo(strategy))>>]]
          ELSE calls' = [calls EXCEPT ![c] =
                   [entered EXCEPT !.pc = "fetching",
                                   !.fetch = <<[url |-> strategy._profileURL,
                                                accessToken |-> accessToken]>>]]
    /\ UNCHANGED strategy

\* userProfile(accessToken, done) called directly, done recording its arguments.
UserProfile(c, accessToken) ==
    /\ calls[c].pc = "idle"
    /\ calls' = [calls EXCEPT ![c] =
           [@ EXCEPT !.pc = "fetching", !.entry = "userProfile",
                     !.accessToken = accessToken,
                     !.fetch = <<[url |-> strategy._profileURL,
                                  accessToken |-> accessToken]>>]]
    /\ UNCHANGED strategy

\* (error, profile) => ... : the callback authenticate gives _loadUserProfile,
\* with the verify callback behaving as vb.  The result is the call record
\* after it; a throw of _verify leaves through this callback to its caller.
Loaded(call, error, profile, vb) ==
    IF Truthy(error)
    THEN [call EXCEPT !.pc = "done", !.outcomes = @ \o <<Error(error)>>]
    ELSE LET args == VerifyArgs(strategy, call.req, call.accessToken,
                                call.refreshToken, profile)
             called == [call EXCEPT !.verifyArgs = @ \o <<args>>]
         IN IF vb.done = <<>>
            THEN [called EXCEPT !.pc = IF Truthy(vb.throw) THEN "done" ELSE "verifying"]
            ELSE [called EXCEPT !.pc = "done",
                                !.doneArgs = @ \o <<vb.done>>,
                                !.outcomes = @ \o <<Verified(vb.done[1], vb.done[2],
                                                             vb.done[3])>>]

\* The callback userProfile gives _oauth2.get, completing with (error, body).
\* done is called with the first result; in the try block an exception thrown
\* out of done is caught and handed to done again.
FetchCallback(c, error, body, vb) ==
    /\ calls[c].pc = "fetching"
    /\ LET first == UserProfileDone(error, body)
           call == [calls[c] EXCEPT !.response = @ \o <<[error |-> error, body |-> body]>>,
                                    !.loaded = @ \o <<first>>]
       IN IF calls[c].entry = "userProfile"
          THEN calls' = [calls EXCEPT ![c] = [call EXCEPT !.pc = "done"]]
          ELSE LET after == Loaded(call, first.error, first.profile, vb)
                   caught == ~Truthy(first.error) /\ Truthy(vb.throw)
               IN calls' = [calls EXCEPT ![c] =
                      IF caught
                      THEN Loaded([after EXCEPT !.loaded = @ \o
                                       <<[error |-> vb.throw, profile |-> Undefined]>>],
                                  vb.throw, Undefined, Returns(<<>>))
                      ELSE after]
    /\ UNCHANGED strategy

\* The verify callback calls verified(error, user, info) after _verify returned.
VerifiedLater(c, error, user, info) ==
    /\ calls[c].pc = "verifying"
    /\ calls' = [calls EXCEPT ![c] =
           [@ EXCEPT !.pc = "done",
                     !.doneArgs = @ \o <<<<error, user, info>>>>,
                     !.outcomes = @ \o <<Verified(error, user, info)>>]]
    /\ UNCHANGED strategy

\* The actions, with their inputs drawn from the given sets.
AuthenticateFrom(requests, options) ==
    \E c \in DOMAIN calls, req \in requests, o \in options : Authenticate(c, req, o)

UserProfileFrom(tokens) ==
    \E c \in DOMAIN calls, accessToken \in tokens : UserProfile(c, accessToken)

FetchCallbackFrom(results, behaviours) ==
    \E c \in DOMAIN calls, r \in results, vb \in behaviours :
        FetchCallback(c, r.error, r.body, vb)

VerifiedLaterFrom(doneArgs) ==
    \E c \in DOMAIN calls, d \in doneArgs : VerifiedLater(c, d[1], d[2], d[3])

(***************************************************************************)
(* Inputs.                                                                 *)
(***************************************************************************)
CustomURL == Str("https://example.test/v1/me")

OptionsSet ==
    { Undefined,
      Obj([clientID |-> Str("123"), clientSecret |-> Str("123")]),
      Obj([passReqToCallback |-> Bool(TRUE)]),
      Obj([passReqToCallback |-> Bool(FALSE)]),
      Obj([accessTokenField |-> Str("token")]),
      Obj([refreshTokenField |-> Str("rtoken")]),
      Obj([accessTokenField |-> Str(""), profileURL |-> CustomURL]),
      Obj([accessTokenField |-> Str("token"), refreshTokenField |-> Str("rtoken"),
           passReqToCallback |-> Bool(TRUE), profileURL |-> CustomURL]) }

AccessKeys == {"access_token", "token"}
RefreshKeys == {"refresh_token", "rtoken"}

\* The objects with at most one of the keys, holding one of the values.
Part(keys, values) == {<<>>} \cup {k :> v : k \in keys, v \in values}

TokenObjects(access, refresh) ==
    {Obj(a @@ r) : a \in Part(AccessKeys, {Str(""), access}),
                   r \in Part(RefreshKeys, {refresh})}

Bodies == {Undefined} \cup TokenObjects(Str("body-access"), Str("body-refresh"))
Queries == {Undefined} \cup TokenObjects(Str("query-access"), Str("query-refresh"))
TokenHeaders ==
    Obj([access_token |-> Str("header-access"), refresh_token |-> Str("header-refresh")])

\* Requests with body and query of every kind, and requests that carry the
\* tokens in their headers only.
Requests ==
    {Obj([body |-> b, query |-> q, headers |-> Obj(<<>>)]) : b \in Bodies, q \in Queries}
      \cup {Obj([body |-> b, query |-> q, headers |-> TokenHeaders]) :
               b \in {Undefined, Obj(<<>>)}, q \in {Undefined, Obj(<<>>)}}

\* The profile of the test fixture, and a profile with an id only.
FixtureProfile ==
    Obj([ id |-> Str("8c8ce076ca27823f"), name |-> Str("Roberto Tamburello"),
          first_name |-> Str("Roberto"), last_name |-> Str("Tamburello"),
          emails |-> Obj([ preferred |-> Str("Roberto@contoso.com"),
                           account |-> Str("Roberto@contoso.com"),
                           personal |-> Str("Roberto@fabrikam.com"),
                           business |-> Str("Robert@adatum.com"),
                           other |-> Str("Roberto@adventure-works.com") ]) ])

ProfileBodies == {JsonText(FixtureProfile), Str("not a JSON"), JsonText(Null)}

ProviderError ==
    Obj([code |-> Str("request_token_invalid"),
         message |-> Str("The access token isn't valid.")])

ErrorPayloads ==
    { Undefined, Str("Service Unavailable"),
      JsonText(Obj([error |-> ProviderError])),
      JsonText(Obj([error |-> Obj([code |-> Str("request_failed")])])),
      JsonText(Obj([error |-> Str("invalid_token")])),
      JsonText(Obj([error |-> Null])),
      JsonText(Obj([message |-> Str("no envelope")])),
      JsonText(Null) }

TransportErrors ==
    {Obj([statusCode |-> Num(401)])}
      \cup {Obj([statusCode |-> Num(401), data |-> d]) :
               d \in ErrorPayloads \ {Undefined}}

\* What _oauth2.get hands its callback: (error, body).
FetchResults ==
    {[error |-> Null, body |-> b] : b \in ProfileBodies}
      \cup {[error |-> e, body |-> Undefined] : e \in TransportErrors}
      \cup {[error |-> Obj([statusCode |-> Num(401)]),
              body |-> JsonText(FixtureProfile)]}

AppError == ErrorObj("Error", "user lookup failed", Undefined)
AppUser == Obj([id |-> Str("user-1")])
AppInfo == Obj([info |-> Str("foo")])
AppException == ErrorObj("Error", "verify threw", Undefined)

DoneArgs ==
    {<<e, u, i>> : e \in {Null, AppError}, u \in {Bool(FALSE), Null, Undefined, AppUser},
                   i \in {Undefined, AppInfo}}

VerifyBehaviours ==
    {Returns(<<>>), Throws(<<>>, AppException)}
      \cup {Returns(d) : d \in DoneArgs}
      \cup {Throws(d, AppException) : d \in {<<Null, AppUser, AppInfo>>,
                                              <<Null, Bool(FALSE), AppInfo>>,
                                              <<AppError, Undefined, Undefined>>}}

DirectTokens == {Str("accessToken")}

\* The options the host framework passes to authenticate.
CallOptions == {Undefined, Obj(<<>>)}

(***************************************************************************)
(* Spec: one strategy, constructed from any of the option sets, handling   *)
(* one request or one direct userProfile call.                             *)
(***************************************************************************)
Init ==
    /\ strategy \in {Constructor(o) : o \in OptionsSet}
    /\ calls = [c \in {1} |-> IdleCall]

Next ==
    \/ AuthenticateFrom(Requests, CallOptions)
    \/ UserProfileFrom(DirectTokens)
    \/ FetchCallbackFrom(FetchResults, VerifyBehaviours)
    \/ VerifiedLaterFrom(DoneArgs)

Spec == Init /\ [][Next]_vars

(***************************************************************************)
(* SpecProfile: userProfile called directly, the provider answering with   *)
(* profiles whose emails object holds, under each of its five keys, no     *)
(* value, the empty string or one of NumAddrs addresses.                   *)
(***************************************************************************)
NumAddrs == 2

Address(i) == Str("user" \o ToString(i) \o "@example.com")

EmailKeys == {"account", "personal", "business", "other", "preferred"}
EmailValues == {Undefined, Str("")} \cup {Address(i) : i \in 1..NumAddrs}

\* The object holding f[k] under every key k for which f has a value.
ObjectOf(f) == Obj([k \in {k \in DOMAIN f : f[k] # Undefined} |-> f[k]])

RawProfile ==
    [id |-> Str("8c8ce076ca27823f"), name |-> Str("Roberto Tamburello")]

RawProfiles ==
    {Obj(RawProfile), Obj(("emails" :> Null) @@ RawProfile)}
      \cup {Obj(("emails" :> ObjectOf(f)) @@ RawProfile) : f \in [EmailKeys -> EmailValues]}

ProfileResults == {[error |-> Null, body |-> JsonText(j)] : j \in RawProfiles}

InitProfile ==
    /\ strategy = Constructor(Obj([clientID |-> Str("123"), clientSecret |-> Str("123")]))
    /\ calls = [c \in {1} |-> IdleCall]

NextProfile ==
    \/ UserProfileFrom(DirectTokens)
    \/ FetchCallbackFrom(ProfileResults, {Returns(<<>>)})

SpecProfile == InitProfile /\ [][NextProfile]_vars

(***************************************************************************)
(* SpecConc: MaxCalls requests handled by one strategy, their fetches and  *)
(* verify callbacks completing in any order.  The provider answers a fetch *)
(* with the profile of the access token it was given, or with an error.    *)
(***************************************************************************)
MaxCalls == 2

ConcOptions == {Undefined, Obj([passReqToCallback |-> Bool(TRUE)])}

ConcRequests ==
    { Obj([body |-> Obj(<<>>), query |-> Obj(<<>>), headers |-> Obj(<<>>)]),
      Obj([body |-> Obj([access_token |-> Str("token-1"),
                         refresh_token |-> Str("refresh-1")]),
           query |-> Obj(<<>>), headers |-> Obj(<<>>)]),
      Obj([body |-> Obj(<<>>), query |-> Obj([access_token |-> Str("token-2")]),
           headers |-> Obj(<<>>)]) }

ResultsFor(accessToken) ==
    { [error |-> Null, body |-> JsonText(Obj([id |-> accessToken]))],
      [error |-> Obj([statusCode |-> Num(401),
                      data |-> JsonText(Obj([error |-> ProviderError]))]),
       body |-> Undefined] }

ConcCallOptions == {Undefined, Obj([passReqToCallback |-> Bool(TRUE)])}

ConcDoneArgs == {<<Null, AppUser, AppInfo>>, <<Null, Bool(FALSE), AppInfo>>}

ConcBehaviours == {Returns(<<>>), Returns(<<Null, AppUser, Undefined>>)}

FetchCallbackOwn(behaviours) ==
    \E c \in DOMAIN calls :
        /\ calls[c].pc = "fetching"
        /\ \E r \in ResultsFor(calls[c].fetch[1].accessToken), vb \in behaviours :
               FetchCallback(c, r.error, r.body, vb)

InitConc ==
    /\ strategy \in {Constructor(o) : o \in ConcOptions}
    /\ calls = [c \in 1..MaxCalls |-> IdleCall]

NextConc ==
    \/ AuthenticateFrom(ConcRequests, ConcCallOptions)
    \/ FetchCallbackOwn(ConcBehaviours)
    \/ VerifiedLaterFrom(ConcDoneArgs)

SpecConc == InitConc /\ [][NextConc]_vars

(***************************************************************************)
(* Vocabulary of the claims, stated without the operators of the model     *)
(* that they constrain.                                                    *)
(***************************************************************************)
AuthCalls == {c \in DOMAIN calls : calls[c].entry = "authenticate"}

NonEmptyString(v) == v.t = "string" /\ v # Str("")

\* The value a part of the request (body, query, headers) holds under a name.
Held(req, part, name) ==
    LET p == req.f[part] IN
    IF p.t = "object" /\ name \in DOMAIN p.f THEN p.f[name] ELSE Undefined

\* The token the request presents under a name: the body's when non-empty,
\* otherwise the query's.
Presented(req, name) ==
    IF NonEmptyString(Held(req, "body", name)) THEN Held(req, "body", name)
    ELSE Held(req, "query", name)

AccessName == strategy._accessTokenField.s
RefreshName == strategy._refreshTokenField.s

MissingTokenFailure ==
    [kind |-> "fail", user |-> Undefined, err |-> Undefined,
     info |-> Obj([message |-> Str("You should provide " \o AccessName)])]

Kinds(call) == {call.outcomes[k].kind : k \in DOMAIN call.outcomes}

\* C1: a request holding no non-empty access token under the configured
\* field (in body, query or headers) is answered by fail with the message
\* 'You should provide <field>', the field being the configured one and
\* 'access_token' when none is configured; nothing is fetched, verify is not
\* called, and neither success nor error is signalled.
C1_MissingTokenFails ==
    /\ AccessName \in {"access_token", "token"}
    /\ \A c \in AuthCalls :
         (\A part \in {"body", "query", "headers"} :
             ~NonEmptyString(Held(calls[c].req, part, AccessName)))
         => /\ calls[c].outcomes = <<MissingTokenFailure>>
            /\ calls[c].fetch = <<>>
            /\ calls[c].verifyArgs = <<>>
            /\ calls[c].doneArgs = <<>>

C1_Witness ==
    \E c \in AuthCalls :
        /\ AccessName = "token"
        /\ Held(calls[c].req, "body", "token") = Str("")
        /\ Held(calls[c].req, "query", "access_token") = Str("query-access")
        /\ Held(calls[c].req, "query", "token") = Undefined
        /\ calls[c].outcomes = <<MissingTokenFailure>>

Falsy == {Undefined, Null, Bool(FALSE), Str("")}

\* The outcome the claim assigns to done(error, user, info).
DoneOutcome(d) ==
    IF d[1] \notin Falsy
    THEN [kind |-> "error", err |-> d[1], user |-> Undefined, info |-> Undefined]
    ELSE IF d[2] \in Falsy
    THEN [kind |-> "fail", err |-> Undefined, user |-> Undefined, info |-> d[3]]
    ELSE [kind |-> "success", err |-> Undefined, user |-> d[2], info |-> d[3]]

\* C2: whenever the verify callback has called done(error, user, info), the
\* outcome signalled for it is: error carrying the error when error is
\* truthy; otherwise fail carrying info when user is falsy; otherwise
\* success carrying user and info.  It is the only outcome of the call
\* unless the verify callback also threw.
C2_DoneDecidesOutcome ==
    \A c \in AuthCalls :
        calls[c].doneArgs # <<>>
        => /\ calls[c].verifyArgs # <<>>
           /\ calls[c].loaded[1].error = Null
           /\ calls[c].outcomes[1] = DoneOutcome(calls[c].doneArgs[1])
           /\ Len(calls[c].loaded) = 1 => calls[c].outcomes = <<DoneOutcome(calls[c].doneArgs[1])>>

C2_Witness ==
    \E c \in AuthCalls :
        /\ calls[c].doneArgs = <<<<AppError, AppUser, AppInfo>>>>
        /\ calls[c].outcomes = <<[kind |-> "error", err |-> AppError,
                                  user |-> Undefined, info |-> Undefined]>>

\* C3: with the default field names, a request that carries access_token
\* and refresh_token in its headers only has both extracted and is not
\* failed for a missing access token.
C3_HeaderTokensAccepted ==
    \A c \in AuthCalls :
        (/\ AccessName = "access_token" /\ RefreshName = "refresh_token"
         /\ NonEmptyString(Held(calls[c].req, "headers", "access_token"))
         /\ Held(calls[c].req, "body", "access_token") = Undefined
         /\ Held(calls[c].req, "query", "access_token") = Undefined)
        => /\ calls[c].accessToken = Held(calls[c].req, "headers", "access_token")
           /\ calls[c].refreshToken = Held(calls[c].req, "headers", "refresh_token")
           /\ "fail" \notin Kinds(calls[c])

\* C4: the verify callback is called with (req, accessToken, refreshToken,
\* profile, done) when passReqToCallback is truthy and with (accessToken,
\* refreshToken, profile, done) otherwise; req is the request given to
\* authenticate, the tokens are those the request presents and the profile
\* is the one loaded for that access token.
C4_VerifyArguments ==
    \A c \in AuthCalls : \A k \in DOMAIN calls[c].verifyArgs :
        LET args == calls[c].verifyArgs[k]
            rest == <<Presented(calls[c].req, AccessName),
                      Presented(calls[c].req, RefreshName),
                      calls[c].loaded[1].profile, Str("verified")>>
        IN /\ calls[c].fetch[1].accessToken = Presented(calls[c].req, AccessName)
           /\ calls[c].loaded[1].profile.t = "object"
           /\ IF strategy._passReqToCallback = Bool(TRUE)
              THEN args = <<calls[c].req>> \o rest
              ELSE args = rest /\ \A i \in DOMAIN args : args[i] # calls[c].req

C4_Witness ==
    \E c \in AuthCalls :
        /\ strategy._passReqToCallback = Bool(TRUE)
        /\ Len(calls[c].verifyArgs) = 1
        /\ Len(calls[c].verifyArgs[1]) = 5
        /\ calls[c].verifyArgs[1][1] = calls[c].req
        /\ calls[c].verifyArgs[1][2] = Str("query-access")

Answered == {c \in DOMAIN calls : calls[c].response # <<>>}

\* C7: when the fetch completes without transport error and the body is not
\* JSON text, userProfile calls done once, with a SyntaxError and no profile;
\* through authenticate the only outcome is error carrying it, and the verify
\* callback is not called.
C7_ParseErrorSurfaces ==
    \A c \in Answered :
        LET r == calls[c].response[1] IN
        (r.error \in Falsy /\ r.body.t = "string" /\ "json" \notin DOMAIN r.body)
        => /\ Len(calls[c].loaded) = 1
           /\ calls[c].loaded[1].error.t = "error"
           /\ calls[c].loaded[1].error.name = "SyntaxError"
           /\ calls[c].loaded[1].profile = Undefined
           /\ c \in AuthCalls =>
                /\ calls[c].outcomes =
                     <<[kind |-> "error", err |-> calls[c].loaded[1].error,
                        user |-> Undefined, info |-> Undefined]>>
                /\ calls[c].verifyArgs = <<>>
                /\ calls[c].doneArgs = <<>>

C7_Witness ==
    \E c \in AuthCalls :
        /\ calls[c].response = <<[error |-> Null, body |-> Str("not a JSON")]>>
        /\ calls[c].pc = "done"
        /\ Kinds(calls[c]) = {"error"}

\* C8: the access token authenticate uses is the one the body holds under
\* the configured field when that is non-empty, and otherwise the one the
\* query holds; it is the token fetched with and given to the verify
\* callback.  The refresh token is chosen the same way under its own field,
\* and a request with an access token is never failed for a missing token,
\* whatever its refresh token.
C8_BodyBeforeQuery ==
    \A c \in AuthCalls :
        LET req == calls[c].req
            access == Presented(req, AccessName)
            refresh == Presented(req, RefreshName)
        IN /\ NonEmptyString(Held(req, "body", AccessName))
                => calls[c].accessToken = Held(req, "body", AccessName)
           /\ NonEmptyString(Held(req, "body", RefreshName))
                => calls[c].refreshToken = Held(req, "body", RefreshName)
           /\ calls[c].accessToken = access
           /\ calls[c].refreshToken = refresh
           /\ NonEmptyString(access)
                => /\ calls[c].fetch = <<[url |-> strategy._profileURL, accessToken |-> access]>>
                   /\ \A k \in DOMAIN calls[c].outcomes :
                          calls[c].outcomes[k] # MissingTokenFailure
           /\ \A k \in DOMAIN calls[c].verifyArgs :
                  LET args == calls[c].verifyArgs[k] IN
                  /\ args[Len(args) - 3] = access
                  /\ args[Len(args) - 2] = refresh

C8_Witness ==
    \E c \in AuthCalls :
        /\ Held(calls[c].req, "body", AccessName) = Str("body-access")
        /\ Held(calls[c].req, "query", AccessName) = Str("query-access")
        /\ Held(calls[c].req, "body", RefreshName) = Undefined
        /\ Held(calls[c].req, "query", RefreshName) = Str("query-refresh")
        /\ Len(calls[c].verifyArgs) = 1
        /\ calls[c].fetch[1].accessToken = Str("body-access")

\* The provider's error envelope in a transport error's payload: the error
\* member of the JSON document, when the payload is one and the member is
\* neither missing nor null.
Payload(error) ==
    IF error.t = "object" /\ "data" \in DOMAIN error.f THEN error.f.data ELSE Undefined

Envelope(error) ==
    LET data == Payload(error) IN
    IF data.t = "string" /\ "json" \in DOMAIN data /\ data.json.t = "object"
         /\ "error" \in DOMAIN data.json.f
    THEN data.json.f.error
    ELSE Undefined

Member(o, k) == IF o.t = "object" /\ k \in DOMAIN o.f THEN o.f[k] ELSE Undefined

\* C9: when the fetch reports a transport error, userProfile calls done once,
\* with an InternalOAuthError and no profile, whatever the body: with the
\* envelope's message and code when the payload has an error envelope, and
\* otherwise with 'Failed to fetch user profile' and the transport error.
\* Through authenticate the only outcome is error, and verify is not called.
C9_TransportErrorWrapped ==
    \A c \in Answered :
        LET r == calls[c].response[1]
            e == calls[c].loaded[1].error
            envelope == Envelope(r.error)
        IN r.error \notin Falsy
           => /\ Len(calls[c].loaded) = 1
              /\ calls[c].loaded[1].profile = Undefined
              /\ e.t = "error" /\ e.name = "InternalOAuthError"
              /\ IF envelope.t \notin {"undefined", "null"}
                 THEN e.message = Member(envelope, "message")
                        /\ e.oauthError = Member(envelope, "code")
                 ELSE e.message = Str("Failed to fetch user profile")
                        /\ e.oauthError = r.error
              /\ c \in AuthCalls =>
                   /\ calls[c].outcomes = <<[kind |-> "error", err |-> e,
                                             user |-> Undefined, info |-> Undefined]>>
                   /\ calls[c].verifyArgs = <<>>

C9_Witness ==
    \E c \in AuthCalls :
        /\ calls[c].response # <<>>
        /\ Envelope(calls[c].response[1].error) = ProviderError
        /\ Kinds(calls[c]) = {"error"}
        /\ calls[c].outcomes[1].err.message = Str("The access token isn't valid.")
        /\ calls[c].outcomes[1].err.oauthError = Str("request_token_invalid")

\* The address the raw profile holds under a key of its emails object.
RawEmail(json, key) == Member(Member(json, "emails"), key)

Categories == <<"account", "personal", "business", "other">>
TypeTag == [account |-> "account", personal |-> "home", business |-> "work", other |-> "other"]

Flagged(entry) == "primary" \in DOMAIN entry.f /\ entry.f.primary = Bool(TRUE)

\* The calls whose fetch was answered, without error, by a JSON object.
WellFormed ==
    {c \in Answered : /\ calls[c].response[1].error \in Falsy
                      /\ calls[c].response[1].body.t = "string"
                      /\ "json" \in DOMAIN calls[c].response[1].body
                      /\ calls[c].response[1].body.json.t = "object"}

\* C5: for a well-formed body userProfile calls done(null, profile); id and
\* displayName are the raw id and name; profile.emails holds, in the order
\* account, personal, business, other, one entry for each category the raw
\* emails object holds a non-empty address for, with that address as value
\* and the type account, home, work, other; an entry is flagged primary
\* exactly when its value is the raw preferred address, so none is when
\* there is no preferred address or no emails object.
C5_EmailsNormalized ==
    \A c \in WellFormed :
        LET json == calls[c].response[1].body.json
            Present(k) == NonEmptyString(RawEmail(json, k))
            cats == SelectSeq(Categories, Present)
            profile == calls[c].loaded[1].profile
            emails == profile.f.emails.a
        IN /\ calls[c].loaded[1].error = Null
           /\ profile.t = "object"
           /\ profile.f.id = json.f.id
           /\ profile.f.displayName = json.f.name
           /\ Len(emails) = Len(cats)
           /\ \A i \in DOMAIN emails :
                 /\ DOMAIN emails[i].f \subseteq {"value", "type", "primary"}
                 /\ emails[i].f.value = RawEmail(json, cats[i])
                 /\ emails[i].f.type = Str(TypeTag[cats[i]])
                 /\ Flagged(emails[i]) <=> emails[i].f.value = RawEmail(json, "preferred")
                 /\ ~Flagged(emails[i]) => "primary" \notin DOMAIN emails[i].f
           /\ RawEmail(json, "preferred") = Undefined
                => \A i \in DOMAIN emails : ~Flagged(emails[i])

C5_Witness ==
    \E c \in WellFormed :
        LET json == calls[c].response[1].body.json
            emails == calls[c].loaded[1].profile.f.emails.a
        IN /\ RawEmail(json, "account") = Address(1)
           /\ RawEmail(json, "personal") = Str("")
           /\ RawEmail(json, "business") = Address(2)
           /\ RawEmail(json, "other") = Undefined
           /\ RawEmail(json, "preferred") = Address(2)
           /\ Len(emails) = 2
           /\ ~Flagged(emails[1]) /\ Flagged(emails[2])
           /\ emails[2].f.type = Str("work")

\* C6: in every profile userProfile produces, at most one entry of
\* profile.emails is flagged primary.
C6_AtMostOnePrimary ==
    \A c \in WellFormed :
        LET emails == calls[c].loaded[1].profile.f.emails.a IN
        Cardinality({i \in DOMAIN emails : Flagged(emails[i])}) <= 1

\* The outcomes of a call taken alone, from its own request, the answer to
\* its own fetch and what its own verify callback passed to done.
OutcomesAlone(call) ==
    IF ~NonEmptyString(Presented(call.req, AccessName)) THEN <<MissingTokenFailure>>
    ELSE IF call.response = <<>> THEN <<>>
    ELSE IF call.response[1].error \notin Falsy
    THEN LET envelope == Envelope(call.response[1].error) IN
         <<[kind |-> "error", user |-> Undefined, info |-> Undefined,
            err |-> [t |-> "error", name |-> "InternalOAuthError",
                     message |-> Member(envelope, "message"),
                     oauthError |-> Member(envelope, "code")]]>>
    ELSE IF call.doneArgs = <<>> THEN <<>>
    ELSE <<DoneOutcome(call.doneArgs[1])>>

\* The argument lists of a call's verify callback, from its own request and
\* the profile of its own access token.
OwnVerifyArgs(call) ==
    \A k \in DOMAIN call.verifyArgs :
        LET args == call.verifyArgs[k]
            n == Len(args)
        IN /\ n = IF strategy._passReqToCallback = Bool(TRUE) THEN 5 ELSE 4
           /\ n = 5 => args[1] = call.req
           /\ args[n - 3] = Presented(call.req, AccessName)
           /\ args[n - 2] = Presented(call.req, RefreshName)
           /\ args[n - 1].t = "object"
           /\ args[n - 1].f.id = Presented(call.req, AccessName)
           /\ args[n - 1].f._raw = call.response[1].body

C10_Independent ==
    \A c \in AuthCalls :
        /\ OwnVerifyArgs(calls[c])
        /\ calls[c].outcomes = OutcomesAlone(calls[c])
        /\ \A k \in DOMAIN calls[c].fetch :
               calls[c].fetch[k].accessToken = Presented(calls[c].req, AccessName)

\* C10: however the calls of authenticate on one strategy interleave, the
\* verify callback of each receives the request, tokens and profile of its
\* own call and each call's outcomes are those it has when run alone; and no
\* step writes the strategy's configuration fields.
C10_CallsIndependent ==
    /\ []C10_Independent
    /\ [][strategy' = strategy]_vars

C10_Witness ==
    /\ DOMAIN calls = 1..MaxCalls
    /\ calls[1].pc = "verifying" /\ calls[1].accessToken = Str("token-1")
    /\ calls[2].pc = "done" /\ calls[2].accessToken = Str("token-2")
    /\ Len(calls[1].verifyArgs) = 1 /\ Len(calls[2].verifyArgs) = 1
    /\ Kinds(calls[2]) = {"success"}

\* C11: in every authenticate call whose fetch callback was completed at
\* most once and whose verify callback called done at most once, the profile
\* endpoint is fetched at most once, userProfile has called its done once
\* for each completed fetch, the verify callback was called at most once and
\* only after a profile was loaded without error, and at most one outcome is
\* signalled, exactly one once the call has completed; also when the verify
\* callback throws after or instead of calling done.
C11_OneOutcomePerCall ==
    \A c \in AuthCalls :
        (Len(calls[c].response) <= 1 /\ Len(calls[c].doneArgs) <= 1)
        => /\ Len(calls[c].fetch) <= 1
           /\ Len(calls[c].loaded) = Len(calls[c].response)
           /\ Len(calls[c].verifyArgs) <= 1
           /\ calls[c].verifyArgs # <<>>
                => calls[c].loaded # <<>> /\ calls[c].loaded[1].error = Null
           /\ Len(calls[c].outcomes) <= 1
           /\ calls[c].pc = "done" => Len(calls[c].outcomes) = 1

====
